---- MODULE Spec2Model ----
(***************************************************************************)
(* Model of HPCFastTrainer.run_my_task (src/hpc_fast_trainer.py): an RPC   *)
(* call over RabbitMQ.  Every call publishes a job on 'hpc-jobs' with a    *)
(* fresh correlation_id and reply_to = 'hpc-results', then polls the       *)
(* shared queue 'hpc-results' with basic_get until it fetches a message    *)
(* carrying its own correlation_id, and finally writes the four decoded    *)
(* models to its output files.                                             *)
(***************************************************************************)
EXTENDS Integers, Sequences, FiniteSets, TLC

\* ------------------------------------------------------------------ bounds
\* Number of run_my_task invocations that may be in flight together.
NumCalls == 2
\* Number of replies on 'hpc-results' that belong to no call of the model
\* (left there by other jobs of the same deployment).
MaxStray == 1

Calls == 1..NumCalls

\* ------------------------------------------------------------ option values
None == <<>>
Some(x) == <<x>>
IsSome(o) == Len(o) = 1
Get(o) == o[1]

\* -------------------------------------------------------- names of the code
InputPortNames ==
    { "Image", "rgba PNG - Background layer", "rgba PNG - Music symbol layer",
      "rgba PNG - Staff lines layer", "rgba PNG - Text",
      "rgba PNG - Selected regions" }

\* Keys of the 'inputs' mapping of the request, by input port.
InputKey(port) ==
    CASE port = "Image" -> "Image"
      [] port = "rgba PNG - Background layer" -> "Background"
      [] port = "rgba PNG - Music symbol layer" -> "Music Layer"
      [] port = "rgba PNG - Staff lines layer" -> "Staff Layer"
      [] port = "rgba PNG - Text" -> "Text"
      [] port = "rgba PNG - Selected regions" -> "Selected Regions"

EnvNames == { "HPC_RABBITMQ_USER", "HPC_RABBITMQ_PASSWORD", "HPC_RABBITMQ_HOST" }

\* The four outputs, in the order the code writes them.
OutputOrder ==
    << "Background Model", "Music Symbol Model", "Staff Lines Model", "Text Model" >>
OutputNames == { OutputOrder[i] : i \in 1..Len(OutputOrder) }

JobQueue == "hpc-jobs"
callback_queue == "hpc-results"

\* ------------------------------------------------------------------ base64
\* A base64 text is a sequence of characters: 0..63 are the alphabet (by
\* value), Pad is '=', NL is a newline (outside the alphabet).
Pad == 64
NL == 65

\* base64.encodebytes on a byte sequence: groups of three bytes become four
\* characters, the last group is padded, a newline ends the text.
RECURSIVE B64Groups(_)
B64Groups(b) ==
    IF Len(b) = 0 THEN << >>
    ELSE IF Len(b) = 1 THEN
        << b[1] \div 4, (b[1] % 4) * 16, Pad, Pad >>
    ELSE IF Len(b) = 2 THEN
        << b[1] \div 4, (b[1] % 4) * 16 + b[2] \div 16, (b[2] % 16) * 4, Pad >>
    ELSE
        << b[1] \div 4, (b[1] % 4) * 16 + b[2] \div 16,
           (b[2] % 16) * 4 + b[3] \div 64, b[3] % 64 >>
        \o B64Groups(SubSeq(b, 4, Len(b)))

B64Encode(b) == IF Len(b) = 0 THEN << >> ELSE B64Groups(b) \o << NL >>

\* base64.decodebytes (binascii.a2b_base64, not strict): characters outside
\* the alphabet are skipped, a complete pad sequence ends the input, and
\* an incomplete last quad is an error.
RECURSIVE A2B(_, _, _, _, _, _)
A2B(t, i, quad_pos, leftchar, pads, out) ==
    IF i > Len(t) THEN [ok |-> quad_pos = 0, data |-> out]
    ELSE IF t[i] = Pad THEN
        IF quad_pos >= 2 /\ quad_pos + pads + 1 >= 4
        THEN [ok |-> TRUE, data |-> out]
        ELSE A2B(t, i + 1, quad_pos, leftchar, pads + 1, out)
    ELSE IF t[i] \notin 0..63 THEN A2B(t, i + 1, quad_pos, leftchar, pads, out)
    ELSE IF quad_pos = 0 THEN A2B(t, i + 1, 1, t[i], 0, out)
    ELSE IF quad_pos = 1 THEN
        A2B(t, i + 1, 2, t[i] % 16, 0, Append(out, leftchar * 4 + t[i] \div 16))
    ELSE IF quad_pos = 2 THEN
        A2B(t, i + 1, 3, t[i] % 4, 0, Append(out, leftchar * 16 + t[i] \div 4))
    ELSE A2B(t, i + 1, 0, 0, 0, Append(out, leftchar * 64 + t[i]))

B64Decode(t) == A2B(t, 1, 0, 0, 0, << >>)

\* ---------------------------------------------------------------- messages
\* str(uuid4()): a token no other call and no other job has.
Token(c) == c
StrayToken(i) == NumCalls + i

\* The settings the workflow engine passes in, sent on untouched.
TaskSettings ==
    [ epochs |-> 10, patch_height |-> 256, patch_width |-> 256 ]

\* message_dict of a call: each input key is bound to the resource_url of the
\* first resource on its port.
ResourceUrl(c, k) == [ kind |-> "url", text |-> << c, k >> ]
MessageDict(c) ==
    [ inputs |-> [ k \in { InputKey(p) : p \in InputPortNames } |-> ResourceUrl(c, k) ],
      settings |-> TaskSettings ]

\* The model file the remote side trains for the job with token t, output k.
Payload(t, k) == [ i \in 1..k |-> (t * 67 + i * 85) % 256 ]

\* A complete response: every output name bound to its base64 text.
GoodDict(t) ==
    [ o \in OutputNames |->
        B64Encode(Payload(t, CHOOSE i \in 1..Len(OutputOrder) : OutputOrder[i] = o)) ]

Restrict(f, S) == [ x \in S |-> f[x] ]

\* Reply bodies a remote side can publish for token t: the complete response,
\* a response lacking one output, a response whose 'Music Symbol Model' is no
\* base64 text, and bytes that are no JSON document.
JsonBody(d) == [ kind |-> "json", value |-> d ]
GarbageBody == [ kind |-> "garbage", value |-> << >> ]
BadBase64Dict(t) == [ GoodDict(t) EXCEPT !["Music Symbol Model"] = << 5, NL >> ]
BadReplyBodies(t) ==
    { JsonBody(Restrict(GoodDict(t), OutputNames \ {o})) : o \in OutputNames }
    \cup { JsonBody(BadBase64Dict(t)), GarbageBody }
ReplyBodies(t) == { JsonBody(GoodDict(t)) } \cup BadReplyBodies(t)

\* json.loads(body.decode('utf-8'))
JsonLoads(body) ==
    [ ok |-> body.kind = "json", value |-> body.value ]

\* Content of every output file before the call.
OldContent == << 1 >>

\* ------------------------------------------------------------------- state
VARIABLES
    pc,              \* [Calls -> location in run_my_task]
    inputs,          \* [Calls -> ports present in the inputs mapping]
    environ,         \* names defined in os.environ
    message,         \* [Calls -> None | Some(message_dict)]
    conn,            \* [Calls -> "none" | "open" | "closed"]
    declared,        \* queues that exist on the broker
    jobs,            \* queue 'hpc-jobs': messages ready for delivery
    results,         \* queue 'hpc-results': messages ready for delivery
    unacked,         \* [Calls -> messages delivered on the call's channel, not acknowledged]
    acked,           \* [Calls -> messages the call has acknowledged]
    correlation_id,  \* [Calls -> None | Some(token)]
    frame,           \* [Calls -> None | Some(message basic_get returned last)]
    message_received,\* [Calls -> BOOLEAN]
    result_dict,     \* [Calls -> None | Some(parsed response)]
    files,           \* [Calls -> [OutputNames -> [opened, data]]]
    error,           \* [Calls -> exception that ended the call]
    strays,          \* number of stray replies published so far
    paced            \* [Calls -> what the loop did since its last basic_get]

vars == << pc, inputs, environ, message, conn, declared, jobs, results, unacked,
           acked, correlation_id, frame, message_received, result_dict, files,
           error, strays, paced >>

NoError == [ type |-> "none", at |-> "none" ]
Raised(type, at) == [ type |-> type, at |-> at ]

\* The inputs mappings tried: complete, or lacking one port.
InputChoices == { InputPortNames } \cup { InputPortNames \ {p} : p \in InputPortNames }

\* State at the moment the calls in `invoked` are entered.
InitWith(invoked) ==
    /\ pc = [ c \in Calls |-> IF c \in invoked THEN "start" ELSE "idle" ]
    /\ inputs \in [ Calls -> InputChoices ]
    /\ \A c \in Calls \ invoked : inputs[c] = InputPortNames
    /\ environ \in SUBSET EnvNames
    /\ message = [ c \in Calls |-> None ]
    /\ conn = [ c \in Calls |-> "none" ]
    /\ declared = {}
    /\ jobs = << >>
    /\ results = << >>
    /\ unacked = [ c \in Calls |-> << >> ]
    /\ acked = [ c \in Calls |-> << >> ]
    /\ correlation_id = [ c \in Calls |-> None ]
    /\ frame = [ c \in Calls |-> None ]
    /\ message_received = [ c \in Calls |-> FALSE ]
    /\ result_dict = [ c \in Calls |-> None ]
    /\ files = [ c \in Calls |-> [ o \in OutputNames |->
                    [ opened |-> FALSE, data |-> OldContent ] ] ]
    /\ error = [ c \in Calls |-> NoError ]
    /\ strays = 0
    /\ paced = [ c \in Calls |-> {} ]

Init == InitWith(Calls)
InitSingle == InitWith({1})

\* ----------------------------------------------------------------- helpers
RemoveAt(q, i) == SubSeq(q, 1, i - 1) \o SubSeq(q, i + 1, Len(q))

\* The test without the comparison of tokens: any fetched message is taken.
MatchesAny(c, fr) == IsSome(fr)

\* The correlation test of the poll loop: a message was fetched and its
\* correlation_id is the call's own.
Matches(c, fr) ==
    IsSome(fr) /\ correlation_id[c] = Some(Get(fr).correlation_id)

\* The broker's part of a connection going away: what the channel held
\* unacknowledged is ready again, at the head of the queue it came from.
Requeued(c) == unacked[c] \o results

\* Leaving the `with pika.BlockingConnection(...)` block, by its end or by an
\* exception: the connection is closed.
ReleaseConnection(c) ==
    /\ conn' = [conn EXCEPT ![c] = "closed"]
    /\ results' = Requeued(c)
    /\ unacked' = [unacked EXCEPT ![c] = << >>]

\* The same without a with statement: the exception leaves the connection as
\* it is.
RaiseLeaking(c, type) ==
    /\ pc' = [pc EXCEPT ![c] = "failed"]
    /\ error' = [error EXCEPT ![c] = Raised(type, pc[c])]
    /\ UNCHANGED << conn, results, unacked >>

\* An exception raised inside the with block ends the call there.
RaiseInBlock(c, type) ==
    /\ ReleaseConnection(c)
    /\ pc' = [pc EXCEPT ![c] = "failed"]
    /\ error' = [error EXCEPT ![c] = Raised(type, pc[c])]

\* ----------------------------------------------------------------- actions
\* The lookups done with a default (inputs.get) instead of raising.
BuildMessageLenient(c) ==
    /\ pc[c] = "start"
    /\ message' = [message EXCEPT ![c] = Some(MessageDict(c))]
    /\ pc' = [pc EXCEPT ![c] = "config"]
    /\ UNCHANGED << inputs, environ, conn, declared, jobs, results, unacked, acked,
                    correlation_id, frame, message_received, result_dict, files,
                    error, strays, paced >>

\* Lines 113-125: the six lookups in the inputs mapping and json.dumps.
BuildMessage(c) ==
    /\ pc[c] = "start"
    /\ IF InputPortNames \subseteq inputs[c]
       THEN /\ message' = [message EXCEPT ![c] = Some(MessageDict(c))]
            /\ pc' = [pc EXCEPT ![c] = "config"]
            /\ UNCHANGED error
       ELSE /\ pc' = [pc EXCEPT ![c] = "failed"]
            /\ error' = [error EXCEPT ![c] = Raised("KeyError", "start")]
            /\ UNCHANGED message
    /\ UNCHANGED << inputs, environ, conn, declared, jobs, results, unacked, acked,
                    correlation_id, frame, message_received, result_dict, files,
                    strays, paced >>

\* The environment read with os.environ.get: a missing name raises nothing.
ReadEnvironLenient(c) ==
    /\ pc[c] = "config"
    /\ pc' = [pc EXCEPT ![c] = "connect"]
    /\ UNCHANGED << inputs, environ, message, conn, declared, jobs, results,
                    unacked, acked, correlation_id, frame, message_received,
                    result_dict, files, error, strays, paced >>

\* Lines 127-129: credentials and connection parameters from os.environ.
ReadEnviron(c) ==
    /\ pc[c] = "config"
    /\ IF EnvNames \subseteq environ
       THEN /\ pc' = [pc EXCEPT ![c] = "connect"]
            /\ UNCHANGED error
       ELSE /\ pc' = [pc EXCEPT ![c] = "failed"]
            /\ error' = [error EXCEPT ![c] = Raised("KeyError", "config")]
    /\ UNCHANGED << inputs, environ, message, conn, declared, jobs, results,
                    unacked, acked, correlation_id, frame, message_received,
                    result_dict, files, strays, paced >>

\* Line 130: pika.BlockingConnection(parameters); the broker may be
\* unreachable or refuse the credentials.
Connect(c) ==
    /\ pc[c] = "connect"
    /\ \/ /\ conn' = [conn EXCEPT ![c] = "open"]
          /\ pc' = [pc EXCEPT ![c] = "declare"]
          /\ UNCHANGED error
       \/ /\ pc' = [pc EXCEPT ![c] = "failed"]
          /\ error' = [error EXCEPT ![c] = Raised("AMQPConnectionError", "connect")]
          /\ UNCHANGED conn
    /\ UNCHANGED << inputs, environ, message, declared, jobs, results, unacked,
                    acked, correlation_id, frame, message_received, result_dict,
                    files, strays, paced >>

\* Only the work queue declared; the reply queue is taken to exist.
DeclareJobsOnly(c) ==
    /\ pc[c] = "declare"
    /\ declared' = declared \cup { JobQueue }
    /\ pc' = [pc EXCEPT ![c] = "publish"]
    /\ UNCHANGED << inputs, environ, message, conn, jobs, results, unacked, acked,
                    correlation_id, frame, message_received, result_dict, files,
                    error, strays, paced >>

\* Lines 132-134: the channel and the two queue_declare calls.
DeclareQueues(c) ==
    /\ pc[c] = "declare"
    /\ declared' = declared \cup { JobQueue, callback_queue }
    /\ pc' = [pc EXCEPT ![c] = "publish"]
    /\ UNCHANGED << inputs, environ, message, conn, jobs, results, unacked, acked,
                    correlation_id, frame, message_received, result_dict, files,
                    error, strays, paced >>

\* Lines 138-153: the token, basic_publish to 'hpc-jobs', the loop variables.
Publish(c) ==
    /\ pc[c] = "publish"
    /\ correlation_id' = [correlation_id EXCEPT ![c] = Some(Token(c))]
    /\ jobs' = Append(jobs, [ correlation_id |-> Token(c),
                              reply_to |-> callback_queue,
                              body |-> Get(message[c]) ])
    /\ message_received' = [message_received EXCEPT ![c] = FALSE]
    /\ pc' = [pc EXCEPT ![c] = "get"]
    /\ UNCHANGED << inputs, environ, message, conn, declared, results, unacked,
                    acked, frame, result_dict, files, error, strays, paced >>

\* basic_get that rejects a message with another token without requeue: the
\* broker drops it.
BasicGetDiscarding(c, fr) ==
    /\ frame' = [frame EXCEPT ![c] = fr]
    /\ IF IsSome(fr) THEN results' = Tail(results) ELSE UNCHANGED results
    /\ IF Matches(c, fr)
       THEN /\ unacked' = [unacked EXCEPT ![c] = Append(@, Get(fr))]
            /\ message_received' = [message_received EXCEPT ![c] = TRUE]
            /\ pc' = [pc EXCEPT ![c] = "ack"]
       ELSE /\ pc' = [pc EXCEPT ![c] = "events"]
            /\ UNCHANGED << unacked, message_received >>

\* message_received set for whatever message basic_get returned.
BasicGetFlagging(c, fr) ==
    /\ frame' = [frame EXCEPT ![c] = fr]
    /\ IF IsSome(fr)
       THEN /\ results' = Tail(results)
            /\ unacked' = [unacked EXCEPT ![c] = Append(@, Get(fr))]
            /\ message_received' = [message_received EXCEPT ![c] = TRUE]
       ELSE UNCHANGED << results, unacked, message_received >>
    /\ pc' = [pc EXCEPT ![c] = IF Matches(c, fr) THEN "ack" ELSE "events"]

\* Lines 154-158: one basic_get on 'hpc-results' (no auto-ack) and the test of
\* what it returned.
BasicGetWith(c, fr) ==
    /\ frame' = [frame EXCEPT ![c] = fr]
    /\ IF IsSome(fr)
       THEN /\ results' = Tail(results)
            /\ unacked' = [unacked EXCEPT ![c] = Append(@, Get(fr))]
       ELSE UNCHANGED << results, unacked >>
    /\ IF Matches(c, fr)
       THEN /\ message_received' = [message_received EXCEPT ![c] = TRUE]
            /\ pc' = [pc EXCEPT ![c] = "ack"]
       ELSE /\ pc' = [pc EXCEPT ![c] = "events"]
            /\ UNCHANGED message_received

BasicGet(c) ==
    /\ pc[c] = "get"
    /\ ~message_received[c]
    /\ BasicGetWith(c, IF results = << >> THEN None ELSE Some(Head(results)))
    /\ paced' = [paced EXCEPT ![c] = {}]
    /\ UNCHANGED << inputs, environ, message, conn, declared, jobs, acked,
                    correlation_id, result_dict, files, error, strays >>

\* basic_ack(delivery_tag, multiple=True): every delivery up to the tag is
\* acknowledged.
BasicAckMultiple(c) ==
    /\ pc[c] = "ack"
    /\ acked' = [acked EXCEPT ![c] = @ \o unacked[c]]
    /\ unacked' = [unacked EXCEPT ![c] = << >>]
    /\ pc' = [pc EXCEPT ![c] = "loads"]
    /\ UNCHANGED << inputs, environ, message, conn, declared, jobs, results,
                    correlation_id, frame, message_received, result_dict, files,
                    error, strays, paced >>

\* The body parsed first: the acknowledgement is not sent before json.loads.
BasicAckSkipped(c) ==
    /\ pc[c] = "ack"
    /\ pc' = [pc EXCEPT ![c] = "loads"]
    /\ UNCHANGED << inputs, environ, message, conn, declared, jobs, results,
                    unacked, acked, correlation_id, frame, message_received,
                    result_dict, files, error, strays, paced >>

\* Line 159: basic_ack of the delivery just fetched.
BasicAck(c) ==
    /\ pc[c] = "ack"
    /\ acked' = [acked EXCEPT ![c] = Append(@, unacked[c][Len(unacked[c])])]
    /\ unacked' = [unacked EXCEPT ![c] = RemoveAt(@, Len(@))]
    /\ pc' = [pc EXCEPT ![c] = "loads"]
    /\ UNCHANGED << inputs, environ, message, conn, declared, jobs, results,
                    correlation_id, frame, message_received, result_dict, files,
                    error, strays, paced >>

\* Line 160: json.loads of the body; the loop ends when it returns.
Loads(c) ==
    /\ pc[c] = "loads"
    /\ IF JsonLoads(Get(frame[c]).body).ok
       THEN /\ result_dict' = [result_dict EXCEPT ![c] =
                                 Some(JsonLoads(Get(frame[c]).body).value)]
            /\ pc' = [pc EXCEPT ![c] = "close"]
            /\ UNCHANGED << conn, results, unacked, error >>
       ELSE /\ RaiseInBlock(c, "JSONDecodeError")
            /\ UNCHANGED result_dict
    /\ UNCHANGED << inputs, environ, message, declared, jobs, acked,
                    correlation_id, frame, message_received, files, strays, paced >>

\* Lines 161-162: what the else branch of the loop does between two basic_get
\* calls: it services the connection's events; `sleep` (imported at line 4) is
\* not called.
LoopElse == { "process_data_events" }

\* Line 162: conn.process_data_events(), then back to the loop test.
ProcessDataEvents(c) ==
    /\ pc[c] = "events"
    /\ paced' = [paced EXCEPT ![c] = @ \cup LoopElse]
    /\ pc' = [pc EXCEPT ![c] = "get"]
    /\ UNCHANGED << inputs, environ, message, conn, declared, jobs, results,
                    unacked, acked, correlation_id, frame, message_received,
                    result_dict, files, error, strays >>

\* The writes indented into the with block: they start with the connection
\* still open.
ExitWithOpen(c) ==
    /\ pc[c] = "close"
    /\ message_received[c]
    /\ pc' = [pc EXCEPT ![c] = "write1"]
    /\ UNCHANGED << inputs, environ, message, conn, declared, jobs, results,
                    unacked, acked, correlation_id, frame, message_received,
                    result_dict, files, error, strays, paced >>

\* Line 130, the end of the with block once the loop has ended.
ExitWith(c) ==
    /\ pc[c] = "close"
    /\ message_received[c]
    /\ ReleaseConnection(c)
    /\ pc' = [pc EXCEPT ![c] = "write1"]
    /\ UNCHANGED << inputs, environ, message, declared, jobs, acked,
                    correlation_id, frame, message_received, result_dict, files,
                    error, strays, paced >>

\* Lines 132-162: a channel operation raises because the broker dropped the
\* connection.
InBlock == { "declare", "publish", "get", "ack", "events" }

ChannelError(c) ==
    /\ pc[c] \in InBlock
    /\ RaiseInBlock(c, "AMQPError")
    /\ UNCHANGED << inputs, environ, message, declared, jobs, acked,
                    correlation_id, frame, message_received, result_dict, files,
                    strays, paced >>

\* Lines 164-171: one `with open(path, 'wb') as f: f.write(decodebytes(...))`.
\* open() truncates the file before the response is looked at.
WritePc == << "write1", "write2", "write3", "write4" >>

\* The write without decodebytes: the base64 text goes to the file.
WriteOutputRaw(c, i) ==
    LET o == OutputOrder[i]
        d == Get(result_dict[c])
    IN  IF o \notin DOMAIN d
        THEN /\ files' = [files EXCEPT ![c][o] = [ opened |-> TRUE, data |-> << >> ]]
             /\ error' = [error EXCEPT ![c] = Raised("KeyError", WritePc[i])]
             /\ pc' = [pc EXCEPT ![c] = "failed"]
        ELSE /\ files' = [files EXCEPT ![c][o] = [ opened |-> TRUE, data |-> d[o] ]]
             /\ pc' = [pc EXCEPT ![c] =
                         IF i = Len(WritePc) THEN "done" ELSE WritePc[i + 1]]
             /\ UNCHANGED error

WriteOutput(c, i) ==
    LET o == OutputOrder[i]
        d == Get(result_dict[c])
    IN  IF o \notin DOMAIN d
        THEN /\ files' = [files EXCEPT ![c][o] = [ opened |-> TRUE, data |-> << >> ]]
             /\ error' = [error EXCEPT ![c] = Raised("KeyError", WritePc[i])]
             /\ pc' = [pc EXCEPT ![c] = "failed"]
        ELSE IF ~B64Decode(d[o]).ok
        THEN /\ files' = [files EXCEPT ![c][o] = [ opened |-> TRUE, data |-> << >> ]]
             /\ error' = [error EXCEPT ![c] = Raised("binascii.Error", WritePc[i])]
             /\ pc' = [pc EXCEPT ![c] = "failed"]
        ELSE /\ files' = [files EXCEPT ![c][o] =
                            [ opened |-> TRUE, data |-> B64Decode(d[o]).data ]]
             /\ pc' = [pc EXCEPT ![c] =
                         IF i = Len(WritePc) THEN "done" ELSE WritePc[i + 1]]
             /\ UNCHANGED error

Write(c) ==
    /\ \E i \in 1..Len(WritePc) : pc[c] = WritePc[i] /\ WriteOutput(c, i)
    /\ UNCHANGED << inputs, environ, message, conn, declared, jobs, results,
                    unacked, acked, correlation_id, frame, message_received,
                    result_dict, strays, paced >>

\* The remote side: takes the next job from 'hpc-jobs' and publishes one reply
\* to the queue named in reply_to, tagged with the job's correlation_id.
RemoteReply ==
    /\ jobs # << >>
    /\ \E b \in ReplyBodies(Head(jobs).correlation_id) :
         results' = Append(results,
                           [ correlation_id |-> Head(jobs).correlation_id, body |-> b ])
    /\ jobs' = Tail(jobs)
    /\ UNCHANGED << pc, inputs, environ, message, conn, declared, unacked, acked,
                    correlation_id, frame, message_received, result_dict, files,
                    error, strays, paced >>

\* Another job of the deployment: a reply to a request no call of the model
\* made arrives on the shared queue.
StrayReply ==
    /\ strays < MaxStray
    /\ callback_queue \in declared
    /\ strays' = strays + 1
    /\ results' = Append(results,
                         [ correlation_id |-> StrayToken(strays + 1),
                           body |-> JsonBody(GoodDict(StrayToken(strays + 1))) ])
    /\ UNCHANGED << pc, inputs, environ, message, conn, declared, jobs, unacked,
                    acked, correlation_id, frame, message_received, result_dict,
                    files, error, paced >>

\* One step of call c.
Step(c) ==
    \/ BuildMessage(c)
    \/ ReadEnviron(c)
    \/ Connect(c)
    \/ DeclareQueues(c)
    \/ Publish(c)
    \/ BasicGet(c)
    \/ BasicAck(c)
    \/ Loads(c)
    \/ ProcessDataEvents(c)
    \/ ExitWith(c)
    \/ Write(c)

Next ==
    \/ \E c \in Calls : Step(c)
    \/ \E c \in Calls : ChannelError(c)
    \/ RemoteReply
    \/ StrayReply

Spec == Init /\ [][Next]_vars

\* A single call on the shared queue.
SpecSingle == InitSingle /\ [][Next]_vars

\* Every call is a thread that keeps running: a call that can take a step
\* takes one.  The remote side and the broker promise nothing.
Fairness == \A c \in Calls : WF_vars(Step(c))
FairSpec == Init /\ [][Next]_vars /\ Fairness
FairSingle == InitSingle /\ [][Next]_vars /\ Fairness

\* ------------------------------------------------------------- vocabulary
Range(q) == { q[i] : i \in DOMAIN q }
AllTokens == { Token(c) : c \in Calls } \cup { StrayToken(i) : i \in 1..MaxStray }
Polling(c) == pc[c] \in { "get", "events" }
AfterLoop(c) == pc[c] \in { "close", "done" } \cup Range(WritePc)
\* Every message the broker still has: ready on 'hpc-results' or delivered and
\* waiting for an acknowledgement.
BrokerMsgs == Range(results) \cup UNION { Range(unacked[c]) : c \in Calls }
Holds(c, t) == \E i \in DOMAIN unacked[c] : unacked[c][i].correlation_id = t
Ready(t) == \E i \in DOMAIN results : results[i].correlation_id = t
Untouched(c) ==
    \A o \in OutputNames : files[c][o] = [ opened |-> FALSE, data |-> OldContent ]

\* ---------------------------------------------------------------------- C1
\* C1 (correlation integrity): in every reachable state, a call whose
\* result_dict is set took it from a message tagged with its own token: the
\* message it accepted carries the call's correlation_id, and the response is
\* one the remote side made for that token, never one made for another token.
C1_CorrelationIntegrity ==
    \A c \in Calls :
        IsSome(result_dict[c]) =>
            /\ IsSome(frame[c])
            /\ Get(frame[c]).correlation_id = Token(c)
            /\ Get(result_dict[c]) = JsonLoads(Get(frame[c]).body).value
            /\ JsonBody(Get(result_dict[c])) \in ReplyBodies(Token(c))
            /\ \A t \in AllTokens \ { Token(c) } :
                   JsonBody(Get(result_dict[c])) \notin ReplyBodies(t)

\* Two concurrent calls: c has accepted its reply while the reply of the other
\* call d, fetched earlier, is still held on c's channel.
C1_Witness ==
    \E c \in Calls, d \in Calls :
        /\ c # d
        /\ pc[c] = "close"
        /\ IsSome(result_dict[c])
        /\ Holds(c, Token(d))

\* ---------------------------------------------------------------------- C2
\* C2 (no acknowledgement of another caller's reply): in every step, a call
\* acknowledges only messages tagged with its own token, and a message leaves
\* the broker only by being acknowledged by the call that owns its token: a
\* fetched message with another token stays on the broker.
C2_NoForeignAck ==
    [][ /\ \A c \in Calls : \A m \in Range(acked'[c]) : m.correlation_id = Token(c)
        /\ \A m \in BrokerMsgs \ BrokerMsgs' :
              \E c \in Calls :
                  /\ pc[c] = "ack"
                  /\ m.correlation_id = Token(c)
                  /\ acked'[c] = Append(acked[c], m) ]_vars

\* A call has fetched a reply that is not its own, has acknowledged nothing,
\* and the broker still holds the message for it.
C2_Witness ==
    \E c \in Calls :
        /\ pc[c] = "events"
        /\ IsSome(frame[c])
        /\ Get(frame[c]).correlation_id # Token(c)
        /\ Get(frame[c]) \in Range(unacked[c])
        /\ acked[c] = << >>

\* ---------------------------------------------------------------------- C3
\* C3 (requeue while polling): every reply a call fetched and left
\* unacknowledged because its token does not match is eventually ready on the
\* queue again while the fetching call is still in its poll loop (runs in which
\* the broker drops the call's connection aside).
C3_RequeuedWhilePolling ==
    \A c \in Calls : \A t \in AllTokens \ { Token(c) } :
        Holds(c, t) ~> ((Polling(c) /\ Ready(t)) \/ error[c].type = "AMQPError")

\* ---------------------------------------------------------------------- C4
ReplyArrived(c) == \E m \in BrokerMsgs : m.correlation_id = Token(c)
TimedOut(c) ==
    /\ pc[c] = "failed"
    /\ conn[c] = "closed"
    /\ error[c].type \in { "TimeoutError", "AMQPError" }

\* C4 (timeout): a call that polls while no reply with its token is on the
\* broker eventually sees such a reply arrive, or ends in failure with its
\* connection closed (by TimeoutError; a dropped connection also ends it).
C4_Timeout ==
    \A c \in Calls :
        (Polling(c) /\ ~ReplyArrived(c)) ~> (ReplyArrived(c) \/ TimedOut(c))

\* ---------------------------------------------------------------------- C5
\* The reply queue holds a reply with another token and, right behind it, a
\* parseable reply with the token of c, which is about to poll.
OwnReply(c, m) == m.correlation_id = Token(c) /\ JsonLoads(m.body).ok
NonMatchThenMatch(c) ==
    /\ pc[c] = "get"
    /\ unacked[c] = << >>
    /\ Len(results) >= 2
    /\ results[1].correlation_id # Token(c)
    /\ OwnReply(c, results[2])
\* c is past the loop and its result is the body of its own reply.
ReturnedOwn(c) ==
    /\ AfterLoop(c) \/ (pc[c] = "failed" /\ error[c].at \in Range(WritePc))
    /\ IsSome(result_dict[c])
    /\ \E m \in Range(acked[c]) :
          OwnReply(c, m) /\ Get(result_dict[c]) = JsonLoads(m.body).value

\* C5 (non-match scenario, single call): a call that has fetched only
\* replies with other tokens has not left the loop and has no result; and
\* when a reply with another token is delivered first and the call's own
\* reply second, the call goes on polling and ends with the body of the second
\* message as its result (unless the broker drops its connection).
C5_NonMatchThenMatch ==
    /\ [](\A c \in Calls :
            (unacked[c] # << >> /\ ~Holds(c, Token(c)) /\ acked[c] = << >>) =>
                /\ pc[c] \in { "get", "events", "failed" }
                /\ ~message_received[c]
                /\ result_dict[c] = None)
    /\ \A c \in Calls :
          NonMatchThenMatch(c) ~> (ReturnedOwn(c) \/ error[c].type = "AMQPError")

\* The call left the loop with its own reply while the reply it fetched first,
\* tagged with another token, is still unacknowledged on its channel.
C5_Witness ==
    \E c \in Calls :
        /\ pc[c] = "close"
        /\ ReturnedOwn(c)
        /\ Len(unacked[c]) = 1
        /\ unacked[c][1].correlation_id # Token(c)

\* ---------------------------------------------------------------------- C6
GoodReply(c, m) ==
    m = [ correlation_id |-> Token(c), body |-> JsonBody(GoodDict(Token(c))) ]
\* A step of c that is one receive attempt (basic_get returned).
ReceiveAttempt(c) == pc[c] = "get" /\ pc'[c] \in { "ack", "events" }
\* Each output file holds the model the remote side trained for this call.
FilesArePayloads(c) ==
    \A i \in 1..Len(OutputOrder) :
        files[c][OutputOrder[i]] = [ opened |-> TRUE, data |-> Payload(Token(c), i) ]
Completed(c) == pc[c] = "done" /\ FilesArePayloads(c)

\* C6 as stated (end to end, single call): once a complete reply tagged with
\* the call's token is on the reply queue, the call's next receive attempt
\* accepts it.
C6_NextReceiveAccepts ==
    [][ \A c \in Calls :
          (ReceiveAttempt(c) /\ \E m \in Range(results) : GoodReply(c, m)) =>
              pc'[c] = "ack" ]_vars

\* C6 amended: once a complete reply tagged with the call's token is the first
\* ready message of the reply queue, the call's next receive attempt accepts
\* it, the call completes (unless the broker drops its connection), and a
\* completed call has written to the four outputs exactly the payloads the
\* remote side encoded into that reply.
C6_HeadReplyAccepted ==
    /\ [][ \A c \in Calls :
             (ReceiveAttempt(c) /\ results # << >> /\ GoodReply(c, Head(results))) =>
                 pc'[c] = "ack" ]_vars
    /\ [](\A c \in Calls : pc[c] = "done" => FilesArePayloads(c))
    /\ \A c \in Calls :
          (Polling(c) /\ results # << >> /\ GoodReply(c, Head(results)))
              ~> (Completed(c) \/ error[c].type = "AMQPError")

\* The call is done and its four files hold the four payloads.
C6_Witness ==
    \E c \in Calls : Completed(c) /\ GoodReply(c, Get(frame[c]))

\* ---------------------------------------------------------------------- C7
\* C7 (independent concurrent calls): concurrent calls on the shared queue do
\* not block one another; in particular no state is reachable in which two
\* polling calls each hold the other's reply unacknowledged (from such a state
\* neither call can ever fetch its own reply while the other keeps polling).
C7_NoCrossHold ==
    ~ \E c \in Calls, d \in Calls :
        /\ c # d
        /\ Polling(c) /\ Polling(d)
        /\ Holds(c, Token(d)) /\ Holds(d, Token(c))

\* ---------------------------------------------------------------------- C8
\* C8 (atomic unpack): when unpacking fails because the accepted response
\* lacks an output name, no output file has been opened, truncated or written.
C8_AtomicUnpack ==
    \A c \in Calls :
        ( /\ pc[c] = "failed"
          /\ error[c].type = "KeyError"
          /\ error[c].at \in Range(WritePc) ) => Untouched(c)

\* ---------------------------------------------------------------------- C9
\* No broker activity of call c: no connection opened or attempted, nothing
\* declared, no token minted, no request published.
NoNetwork(c) ==
    /\ conn[c] = "none"
    /\ error[c].type # "AMQPConnectionError"
    /\ pc[c] \in { "start", "config", "failed" }
    /\ correlation_id[c] = None
    /\ \A i \in DOMAIN jobs : jobs[i].correlation_id # Token(c)

\* C9 (validation before network): a call whose inputs mapping lacks one of
\* the six required names never gets past the lookups: it opens no
\* connection, declares no queue and publishes nothing, and when it has
\* failed it failed there.
C9_ValidationBeforeNetwork ==
    \A c \in Calls :
        ~(InputPortNames \subseteq inputs[c]) =>
            /\ NoNetwork(c)
            /\ pc[c] \in { "start", "failed" }
            /\ message[c] = None
            /\ pc[c] = "failed" => error[c] = Raised("KeyError", "start")

C9_Witness ==
    \E c \in Calls :
        /\ ~(InputPortNames \subseteq inputs[c])
        /\ pc[c] = "failed"
        /\ error[c] = Raised("KeyError", "start")

\* --------------------------------------------------------------------- C10
\* C10 (configuration before connection): when host, user or password is not
\* in the environment, no call attempts a connection or publishes anything,
\* and a call that got as far as reading the environment failed there.
C10_ConfigurationBeforeConnection ==
    ~(EnvNames \subseteq environ) =>
        /\ jobs = << >>
        /\ declared = {}
        /\ \A c \in Calls :
              /\ NoNetwork(c)
              /\ (pc[c] = "failed" /\ InputPortNames \subseteq inputs[c]) =>
                    error[c] = Raised("KeyError", "config")

C10_Witness ==
    \E c \in Calls :
        /\ ~(EnvNames \subseteq environ)
        /\ IsSome(message[c])
        /\ pc[c] = "failed"
        /\ error[c] = Raised("KeyError", "config")

\* --------------------------------------------------------------------- C11
InputKeys == { InputKey(p) : p \in InputPortNames }
CallOf(t) == CHOOSE c \in Calls : Token(c) = t
\* The bytes of the file behind input k of call c, and its transport form.
InputContent(c, k) == << c, Len(k) >>
EncodedInput(c, k) == [ kind |-> "base64", text |-> B64Encode(InputContent(c, k)) ]

\* C11 (request envelope): every request on 'hpc-jobs' has an 'inputs' mapping
\* whose keys are exactly the six logical names and whose every value is the
\* base64 text of the corresponding input file, and a 'settings' mapping equal
\* to the settings passed in.
C11_RequestEnvelope ==
    \A i \in DOMAIN jobs :
        LET b == jobs[i].body
            c == CallOf(jobs[i].correlation_id)
        IN  /\ DOMAIN b.inputs = InputKeys
            /\ \A k \in InputKeys : b.inputs[k] = EncodedInput(c, k)
            /\ b.settings = TaskSettings

\* --------------------------------------------------------------------- C12
\* The state of the RPC client a call is in, from its place in the code.
State(c) ==
    CASE pc[c] \in { "idle", "start", "config", "connect" } -> "Disconnected"
      [] pc[c] \in { "declare", "publish" } -> "Connected"
      [] pc[c] = "get" /\ paced[c] = {} -> "Published"
      [] pc[c] = "get" /\ paced[c] # {} -> "AwaitingReply"
      [] pc[c] \in { "events", "ack" } -> "AwaitingReply"
      [] pc[c] = "failed" -> "Failed"
      [] OTHER -> "Completed"
StateOrder ==
    << "Disconnected", "Connected", "Published", "AwaitingReply", "Completed" >>
Follows(a, b) ==
    \E i \in 1..(Len(StateOrder) - 1) : StateOrder[i] = a /\ StateOrder[i + 1] = b
PublishedBy(c) ==
    /\ pc[c] = "publish"
    /\ jobs' = Append(jobs, [ correlation_id |-> Token(c),
                              reply_to |-> callback_queue,
                              body |-> Get(message[c]) ])

\* C12 (state ordering): in every step a call keeps its state, moves to the
\* next state of Disconnected, Connected, Published, AwaitingReply, Completed,
\* or fails; Failed is never left.  A request is published only by a call
\* that is Connected with an open connection and both queues declared, has
\* published nothing before, and is Published afterwards; a receive attempt
\* is made only by a call that is Published or AwaitingReply; a call becomes
\* Completed only by acknowledging a reply with its own token.
C12_StateOrdering ==
    [][ \A c \in Calls :
          /\ State(c)' # State(c) =>
                \/ Follows(State(c), State(c)')
                \/ State(c)' = "Failed"
          /\ State(c) = "Failed" => State(c)' = "Failed"
          /\ (State(c) = "Connected")' => conn'[c] = "open"
          /\ PublishedBy(c) =>
                /\ conn[c] = "open"
                /\ { JobQueue, callback_queue } \subseteq declared
                /\ correlation_id[c] = None
                /\ State(c)' = "Published"
          /\ Len(jobs') > Len(jobs) => \E d \in Calls : PublishedBy(d)
          /\ ReceiveAttempt(c) => State(c) \in { "Published", "AwaitingReply" }
          /\ (State(c) # "Completed" /\ State(c)' = "Completed") =>
                /\ pc[c] = "ack"
                /\ \E m \in Range(acked'[c]) : m.correlation_id = Token(c) ]_vars

\* A call that went through all five states, with an empty poll on the way.
C12_Witness ==
    \E c \in Calls :
        /\ pc[c] = "done"
        /\ State(c) = "Completed"
        /\ Len(acked[c]) = 1

\* --------------------------------------------------------------------- C13
\* C13 (at most one accepted response): in every reachable state a call has
\* acknowledged at most one message, that message carries the call's own
\* token and is the one basic_get returned last, and a call that has
\* acknowledged a message is out of the poll loop and makes no further
\* receive attempt.
C13_AtMostOneAccepted ==
    /\ [](\A c \in Calls :
            /\ Len(acked[c]) <= 1
            /\ \A m \in Range(acked[c]) : m.correlation_id = Token(c)
            /\ acked[c] # << >> =>
                  /\ pc[c] \notin { "get", "events", "ack" }
                  /\ message_received[c]
                  /\ frame[c] = Some(acked[c][1]))
    /\ [][ \A c \in Calls :
             acked[c] # << >> => (~ReceiveAttempt(c) /\ frame'[c] = frame[c]) ]_vars

\* A call has acknowledged its own reply while a reply with another token,
\* fetched earlier, is still unacknowledged on its channel.
C13_Witness ==
    \E c \in Calls :
        /\ pc[c] = "loads"
        /\ Len(acked[c]) = 1
        /\ unacked[c] # << >>

\* --------------------------------------------------------------------- C14
\* What the claim wants between an empty poll and the next receive attempt.
Pacing == { "sleep", "process_data_events" }
AfterEmptyPoll(c) == State(c) = "AwaitingReply" /\ pc[c] = "get" /\ frame[c] = None

\* C14 (poll pacing): every receive attempt that follows an empty poll is made
\* after the call has both paused for the backoff interval and serviced the
\* connection's events since that poll.
C14_PollPacing ==
    [][ \A c \in Calls :
          (AfterEmptyPoll(c) /\ ReceiveAttempt(c)) => paced[c] = Pacing ]_vars

\* --------------------------------------------------------------------- C15
\* C15 (all failures reported): when writing the outputs of an accepted
\* response fails on one output, every output has still been attempted.
C15_AllOutputsAttempted ==
    \A c \in Calls :
        (pc[c] = "failed" /\ error[c].at \in Range(WritePc)) =>
            \A o \in OutputNames : files[c][o].opened

\* --------------------------------------------------------------------- C16
\* The reply a call accepted is acknowledged and gone from the broker.
AcceptedIsAcked(c) ==
    /\ IsSome(frame[c])
    /\ Get(frame[c]) \in Range(acked[c])
    /\ Get(frame[c]) \notin BrokerMsgs

\* C16 (acknowledge, then deserialize): a call that is about to parse, or has
\* parsed, the body of a matching reply has acknowledged that reply; and a
\* call whose matching reply could not be parsed has ended in failure with
\* JSONDecodeError raised at json.loads, no result, and the reply acknowledged
\* and no longer on the broker (it is not delivered again).
C16_AckThenDeserialize ==
    \A c \in Calls :
        /\ (pc[c] = "loads" \/ IsSome(result_dict[c])) => AcceptedIsAcked(c)
        /\ error[c].type = "JSONDecodeError" =>
              /\ pc[c] = "failed"
              /\ error[c].at = "loads"
              /\ result_dict[c] = None
              /\ ~JsonLoads(Get(frame[c]).body).ok
              /\ AcceptedIsAcked(c)
        /\ (pc[c] = "failed" /\ IsSome(frame[c]) /\ Matches(c, frame[c])
              /\ ~JsonLoads(Get(frame[c]).body).ok /\ error[c].type # "AMQPError") =>
              error[c].type = "JSONDecodeError"

\* A matching reply with an unparseable body was acknowledged and the call
\* failed at json.loads.
C16_Witness ==
    \E c \in Calls :
        /\ error[c] = Raised("JSONDecodeError", "loads")
        /\ acked[c] = << [ correlation_id |-> Token(c), body |-> GarbageBody ] >>
        /\ conn[c] = "closed"

\* --------------------------------------------------------------------- C17
\* The call has left the with block: by its end, or by an exception raised
\* inside it.
LeftBlock(c) ==
    \/ pc[c] \in Range(WritePc) \cup { "done" }
    \/ pc[c] = "failed" /\ error[c].at \in InBlock \cup { "loads" } \cup Range(WritePc)

\* C17 (connection release on every exit): a call that has left the with
\* block has its connection closed and holds no delivery; and in the step in
\* which an open connection goes away it ends closed and every reply held
\* unacknowledged on it is ready again at the head of the reply queue.
C17_ConnectionRelease ==
    /\ [](\A c \in Calls :
            /\ LeftBlock(c) => (conn[c] = "closed" /\ unacked[c] = << >>)
            /\ conn[c] = "open" => ~LeftBlock(c))
    /\ [][ \A c \in Calls :
             (conn[c] = "open" /\ (conn'[c] # "open" \/ LeftBlock(c)')) =>
                 /\ conn'[c] = "closed"
                 /\ LeftBlock(c)'
                 /\ results' = unacked[c] \o results ]_vars

\* A call failed inside the block after fetching a reply with another token,
\* and that reply is ready on the queue again.
C17_Witness ==
    \E c \in Calls :
        /\ pc[c] = "failed"
        /\ error[c].at \in InBlock
        /\ conn[c] = "closed"
        /\ IsSome(frame[c])
        /\ Get(frame[c]).correlation_id # Token(c)
        /\ Get(frame[c]) \in Range(results)

\* --------------------------------------------------------------------- C18
Accepted(c) == \E m \in Range(acked[c]) : m.correlation_id = Token(c)

\* C18 (outputs untouched until acceptance): a call that has not acknowledged
\* a reply with its own token has opened, truncated or written none of its
\* output files; and whenever one of them has been touched, the call's
\* connection is closed and its result is set.
C18_OutputsUntouched ==
    \A c \in Calls :
        /\ ~Accepted(c) => Untouched(c)
        /\ ~Untouched(c) =>
              /\ conn[c] = "closed"
              /\ IsSome(result_dict[c])
              /\ pc[c] \in (Range(WritePc) \ { "write1" }) \cup { "done", "failed" }

\* One call has started writing with its connection closed while another
\* call, still polling, has touched nothing.
C18_Witness ==
    \E c \in Calls, d \in Calls :
        /\ pc[c] = "write2"
        /\ files[c]["Background Model"].opened
        /\ conn[c] = "closed"
        /\ Polling(d)
        /\ Untouched(d)

====
